---- MODULE Spec2Model ----
(***************************************************************************)
(* Snowscape Previews (VS Code extension).                                 *)
(*                                                                         *)
(*  - PreviewCodeLensProvider.provideCodeLenses: the annotation scan of a  *)
(*    document's text (previewCodeLensProvider.ts).                        *)
(*  - buildCargoCommand / findPackageForFile: the command resolution and   *)
(*    the walk over the ancestor Cargo.toml manifests (extension.ts).      *)
(*  - runPreview: the activations of the snowscape.runPreview command,     *)
(*    their terminals and the text they send (extension.ts).               *)
(*                                                                         *)
(* Text is a sequence of one-character strings, so that the regular        *)
(* expressions and the string methods of the source are computed on the    *)
(* characters, as the code computes them.                                  *)
(***************************************************************************)
EXTENDS Integers, Sequences, FiniteSets, TLC

VARIABLES
    \* provideCodeLenses
    lines,              \* text.split("\n")
    i,                  \* outer loop index (zero-based, as in the code)
    functionLine,       \* lookahead index (zero-based)
    previewType,        \* "stateless" | "stateful" of the marker being processed
    codeLenses,         \* the array returned
    processedFunctions, \* Set of function keys
    pc,                 \* position of provideCodeLenses
    \* buildCargoCommand and findPackageForFile
    fs,                 \* the Cargo.toml of each directory, as vscode.workspace.fs reads it
    baseCommand,        \* snowscape.previewCommand
    pathParts,          \* relativePath.split("/")
    walkI,              \* loop index i of findPackageForFile
    packageName,        \* what findPackageForFile returned (<<>> for null)
    command,            \* what buildCargoCommand returned
    reads,              \* the directories whose manifest this call has read, in order
    previousName,       \* history: the package name the previous call found (<<>> for none)
    rpc,                \* position of buildCargoCommand
    \* the package-name pattern on its own
    manifestLines,      \* the lines of one manifest text
    packageMatch,       \* [matched, name]: the result of cargoTomlText.match(...)
    epc,                \* position of the extraction
    \* runPreview
    settings,           \* the snowscape configuration section
    terminals,          \* vscode.window.terminals, in order of creation
    activations         \* the activations of snowscape.runPreview and their locals

scanVars == <<lines, i, functionLine, previewType, codeLenses, processedFunctions, pc>>

resolveVars == <<fs, baseCommand, pathParts, walkI, packageName, command, reads, previousName, rpc>>

extractVars == <<manifestLines, packageMatch, epc>>

previewVars == <<settings, terminals, activations>>

vars == <<scanVars, resolveVars, extractVars, previewVars>>

(***************************************************************************)
(* Bounds                                                                  *)
(***************************************************************************)
MaxLines == 3

MaxDepth == 3

MaxManifestLines == 4

MaxActivations == 2

(***************************************************************************)
(* Characters and string methods                                           *)
(***************************************************************************)
WhiteSpace == {" ", "\t", "\n", "\r"}

WordChars ==
    {"a","b","c","d","e","f","g","h","i","j","k","l","m","n","o","p","q","r","s","t",
     "u","v","w","x","y","z",
     "A","B","C","D","E","F","G","H","I","J","K","L","M","N","O","P","Q","R","S","T",
     "U","V","W","X","Y","Z",
     "0","1","2","3","4","5","6","7","8","9","_"}

SetMin(S) == CHOOSE x \in S : \A y \in S : x <= y

SetMax(S) == CHOOSE x \in S : \A y \in S : x >= y

\* String.prototype.trim
trim(s) ==
    LET keep == {k \in 1..Len(s) : s[k] \notin WhiteSpace}
    IN  IF keep = {} THEN <<>> ELSE SubSeq(s, SetMin(keep), SetMax(keep))

\* the literal p occurs in s at (one-based) position k
HasAt(s, k, p) == k >= 1 /\ k + Len(p) - 1 <= Len(s) /\ SubSeq(s, k, k + Len(p) - 1) = p

\* String.prototype.startsWith
startsWith(s, p) == HasAt(s, 1, p)

\* String.prototype.includes
includes(s, p) == \E k \in 1..(Len(s) + 1) : HasAt(s, k, p)

\* position of the first ")" at or after k, 0 when there is none: where [^)]*\) ends
FirstClose(s, k) ==
    LET closes == {r \in k..Len(s) : s[r] = ")"}
    IN  IF closes = {} THEN 0 ELSE SetMin(closes)

(***************************************************************************)
(* The two marker patterns                                                 *)
(***************************************************************************)
StatelessOpen == <<"#","[","s","n","o","w","s","c","a","p","e",":",":","s","t","a","t","e","l","e","s","s">>

StatefulOpen == <<"#","[","s","n","o","w","s","c","a","p","e",":",":","s","t","a","t","e","f","u","l","(">>

\* /#\[snowscape::stateless(?:\([^)]*\))?\]/ matched at position k
StatelessAt(s, k) ==
    /\ HasAt(s, k, StatelessOpen)
    /\ LET q == k + Len(StatelessOpen)
       IN  \/ HasAt(s, q, <<"]">>)
           \/ /\ HasAt(s, q, <<"(">>)
              /\ FirstClose(s, q + 1) # 0
              /\ HasAt(s, FirstClose(s, q + 1) + 1, <<"]">>)

\* the stateless pattern anchored at the start of the line
statelessRegexAnchored(s) == StatelessAt(s, 1)

\* statelessRegex.test(s)
statelessRegex(s) == \E k \in 1..Len(s) : StatelessAt(s, k)

\* /#\[snowscape::stateful\([^)]*\)\]/ matched at position k
StatefulAt(s, k) ==
    /\ HasAt(s, k, StatefulOpen)
    /\ LET q == k + Len(StatefulOpen)
       IN  /\ FirstClose(s, q) # 0
           /\ HasAt(s, FirstClose(s, q) + 1, <<"]">>)

\* statefulRegex.test(s)
statefulRegex(s) == \E k \in 1..Len(s) : StatefulAt(s, k)

(***************************************************************************)
(* The lookahead's tests on a trimmed line                                 *)
(***************************************************************************)
\* a lookahead that passes over every line that is not a function declaration
IsSkippedUntilFunction(nextLine) ==
    ~(\/ startsWith(nextLine, <<"f","n"," ">>)
      \/ startsWith(nextLine, <<"p","u","b"," ","f","n"," ">>)
      \/ startsWith(nextLine, <<"a","s","y","n","c"," ","f","n"," ">>)
      \/ startsWith(nextLine, <<"p","u","b"," ","a","s","y","n","c"," ","f","n"," ">>))

\* !nextLine || nextLine.startsWith("#[") || nextLine.startsWith("//")
IsSkipped(nextLine) ==
    \/ nextLine = <<>>
    \/ startsWith(nextLine, <<"#","[">>)
    \/ startsWith(nextLine, <<"/","/">>)

\* the four declaration prefixes
IsFunctionDefinition(nextLine) ==
    \/ startsWith(nextLine, <<"f","n"," ">>)
    \/ startsWith(nextLine, <<"p","u","b"," ","f","n"," ">>)
    \/ startsWith(nextLine, <<"a","s","y","n","c"," ","f","n"," ">>)
    \/ startsWith(nextLine, <<"p","u","b"," ","a","s","y","n","c"," ","f","n"," ">>)

\* end of the run of characters of S that starts at k (k - 1 when s[k] is not in S)
RunEnd(s, k, S) ==
    LET stops == {r \in k..Len(s) : s[r] \notin S}
    IN  IF stops = {} THEN Len(s) ELSE SetMin(stops) - 1

\* /fn\s+(\w+)/ matched at position k: "fn", one or more blanks, one or more word characters
FnNameAt(s, k) ==
    /\ HasAt(s, k, <<"f","n">>)
    /\ RunEnd(s, k + 2, WhiteSpace) >= k + 2
    /\ RunEnd(s, RunEnd(s, k + 2, WhiteSpace) + 1, WordChars) > RunEnd(s, k + 2, WhiteSpace)

\* nextLine.match(/fn\s+(\w+)/): the capture of the leftmost match, <<>> for null
functionNameMatch(s) ==
    LET at == {k \in 1..Len(s) : FnNameAt(s, k)}
    IN  IF at = {} THEN <<>>
        ELSE LET k == SetMin(at)
                 w == RunEnd(s, k + 2, WhiteSpace)
             IN  SubSeq(s, w + 1, RunEnd(s, w + 1, WordChars))

\* `${functionLine}:${functionName}`: a decimal number, ":" and a name without ":"
functionKey(fLine, functionName) == <<fLine, functionName>>

\* a dedup test that never finds the key
HasProcessedNever(processed, key) == FALSE

\* processedFunctions.has(functionKey)
HasProcessed(processed, key) == key \in processed

\* the code lens placed on the marker's line
RangeLineAtMarker(markerLine, fLine) == markerLine

\* new vscode.Range(functionLine, 0, functionLine, 0): the line of the code lens
RangeLine(markerLine, fLine) == fLine

\* new vscode.CodeLens(range, {command: "snowscape.runPreview", arguments: [uri, functionName, previewType]})
CodeLens(markerLine, fLine, functionName, kind) ==
    [line |-> RangeLine(markerLine, fLine), name |-> functionName, kind |-> kind]

\* codeLenses.unshift(codeLens)
Unshift(lenses, lens) == <<lens>> \o lenses

\* codeLenses.push(codeLens)
Push(lenses, lens) == Append(lenses, lens)

\* a dedup that lets the lens of a later marker take the place of the earlier one
EmitLensLastWins(lenses, seen, lens) ==
    IF seen
    THEN [k \in DOMAIN lenses |-> IF lenses[k].line = lens.line THEN lens ELSE lenses[k]]
    ELSE Push(lenses, lens)

\* if (processedFunctions.has(functionKey)) break; otherwise the code lens is pushed
EmitLens(lenses, seen, lens) == IF seen THEN lenses ELSE Push(lenses, lens)

(***************************************************************************)
(* Documents                                                               *)
(***************************************************************************)
\* (blank)
LineBlank == <<>>
\* #[snowscape::stateless]
LineStateless == <<"#","[","s","n","o","w","s","c","a","p","e",":",":","s","t","a","t","e","l","e","s","s","]">>
\*   #[snowscape::stateful(x)]
LineStatefulPayload == <<" "," ","#","[","s","n","o","w","s","c","a","p","e",":",":","s","t","a","t","e","f","u","l","(","x",")","]">>
\* #[snowscape::stateful()]
LineStatefulEmpty == <<"#","[","s","n","o","w","s","c","a","p","e",":",":","s","t","a","t","e","f","u","l","(",")","]">>
\* #[snowscape::stateful]
LineStatefulBare == <<"#","[","s","n","o","w","s","c","a","p","e",":",":","s","t","a","t","e","f","u","l","]">>
\* #[snowscape::stateful(x]
LineStatefulNoClose == <<"#","[","s","n","o","w","s","c","a","p","e",":",":","s","t","a","t","e","f","u","l","(","x","]">>
\* #[snowscape::stateful((x)]
LineStatefulExtraOpen == <<"#","[","s","n","o","w","s","c","a","p","e",":",":","s","t","a","t","e","f","u","l","(","(","x",")","]">>
\* // c
LineComment == <<"/","/"," ","c">>
\* // #[snowscape::stateless]
LineCommentMarker == <<"/","/"," ","#","[","s","n","o","w","s","c","a","p","e",":",":","s","t","a","t","e","l","e","s","s","]">>
\* x #[snowscape::stateless(x)]
LineCodeMarker == <<"x"," ","#","[","s","n","o","w","s","c","a","p","e",":",":","s","t","a","t","e","l","e","s","s","(","x",")","]">>
\* x
LineCode == <<"x">>
\* fn a()
LineFn == <<"f","n"," ","a","(",")">>
\*   pub fn b()\r
LinePubFn == <<" "," ","p","u","b"," ","f","n"," ","b","(",")","\r">>
\* async fn c()
LineAsyncFn == <<"a","s","y","n","c"," ","f","n"," ","c","(",")">>
\* pub async fn d_1()
LinePubAsyncFn == <<"p","u","b"," ","a","s","y","n","c"," ","f","n"," ","d","_","1","(",")">>
\* fn ()
LineFnNoName == <<"f","n"," ","(",")">>
\* fn e() {} // #[snowscape::stateless]
LineFnMarker == <<"f","n"," ","e","(",")"," ","{","}"," ","/","/"," ","#","[","s","n","o","w","s","c","a","p","e",":",":","s","t","a","t","e","l","e","s","s","]">>

LineForms ==
    {LineBlank, LineStateless, LineStatefulPayload, LineStatefulEmpty, LineStatefulBare,
     LineStatefulNoClose, LineStatefulExtraOpen, LineComment, LineCommentMarker,
     LineCodeMarker, LineCode, LineFn, LinePubFn, LineAsyncFn, LinePubAsyncFn,
     LineFnNoName, LineFnMarker}

\* document.getText().split("\n"): one or more lines, none holding a line feed
Documents == UNION {[1..n -> LineForms] : n \in 1..MaxLines}

(***************************************************************************)
(* provideCodeLenses                                                       *)
(***************************************************************************)
ScanInit ==
    /\ lines \in Documents
    /\ i = 0
    /\ functionLine = 0
    /\ previewType = "none"
    /\ codeLenses = <<>>
    /\ processedFunctions = {}
    /\ pc = "start"

\* languageId !== "rust", or snowscape.enableCodeLens is false: return []
ReturnDisabled ==
    /\ pc = "start"
    /\ \E languageId \in {"rust", "plaintext"}, enabled \in BOOLEAN :
          languageId # "rust" \/ ~enabled
    /\ pc' = "off"
    /\ UNCHANGED <<lines, i, functionLine, previewType, codeLenses, processedFunctions>>
    /\ UNCHANGED <<resolveVars, extractVars, previewVars>>

\* both guards pass: the loop over the lines starts
BeginScan ==
    /\ pc = "start"
    /\ \E languageId \in {"rust", "plaintext"}, enabled \in BOOLEAN :
          languageId = "rust" /\ enabled
    /\ pc' = "scan"
    /\ UNCHANGED <<lines, i, functionLine, previewType, codeLenses, processedFunctions>>
    /\ UNCHANGED <<resolveVars, extractVars, previewVars>>

\* one test of the outer loop: is lines[i] a marker line
TestLine ==
    /\ pc = "scan"
    /\ i < Len(lines)
    /\ LET line == trim(lines[i + 1])
           isStateless == statelessRegex(line)
           isStateful == statefulRegex(line)
       IN  IF isStateless \/ isStateful
           THEN /\ previewType' = IF isStateless THEN "stateless" ELSE "stateful"
                /\ functionLine' = i + 1
                /\ pc' = "look"
                /\ i' = i
           ELSE /\ i' = i + 1
                /\ UNCHANGED <<previewType, functionLine, pc>>
    /\ UNCHANGED <<lines, codeLenses, processedFunctions>>
    /\ UNCHANGED <<resolveVars, extractVars, previewVars>>

\* the lookahead skips a blank, attribute or comment line
SkipLine ==
    /\ pc = "look"
    /\ functionLine < Len(lines)
    /\ IsSkipped(trim(lines[functionLine + 1]))
    /\ functionLine' = functionLine + 1
    /\ UNCHANGED <<lines, i, previewType, codeLenses, processedFunctions, pc>>
    /\ UNCHANGED <<resolveVars, extractVars, previewVars>>

\* the first line that is not skipped decides, and the lookahead breaks
DecideLine ==
    /\ pc = "look"
    /\ functionLine < Len(lines)
    /\ LET nextLine == trim(lines[functionLine + 1])
           functionName == functionNameMatch(nextLine)
           key == functionKey(functionLine, functionName)
       IN  /\ ~IsSkipped(nextLine)
           /\ IF IsFunctionDefinition(nextLine) /\ functionName # <<>>
              THEN /\ processedFunctions' = processedFunctions \cup {key}
                   /\ codeLenses' = EmitLens(codeLenses, HasProcessed(processedFunctions, key),
                                             CodeLens(i, functionLine, functionName, previewType))
              ELSE UNCHANGED <<codeLenses, processedFunctions>>
    /\ i' = i + 1
    /\ pc' = "scan"
    /\ UNCHANGED <<lines, functionLine, previewType>>
    /\ UNCHANGED <<resolveVars, extractVars, previewVars>>

\* the lookahead runs off the end of the document
EndOfLines ==
    /\ pc = "look"
    /\ functionLine >= Len(lines)
    /\ i' = i + 1
    /\ pc' = "scan"
    /\ UNCHANGED <<lines, functionLine, previewType, codeLenses, processedFunctions>>
    /\ UNCHANGED <<resolveVars, extractVars, previewVars>>

\* return codeLenses
ReturnLenses ==
    /\ pc = "scan"
    /\ i >= Len(lines)
    /\ pc' = "done"
    /\ UNCHANGED <<lines, i, functionLine, previewType, codeLenses, processedFunctions>>
    /\ UNCHANGED <<resolveVars, extractVars, previewVars>>

ScanNext ==
    \/ ReturnDisabled
    \/ BeginScan
    \/ TestLine
    \/ SkipLine
    \/ DecideLine
    \/ EndOfLines
    \/ ReturnLenses

\* no scan in progress
ScanIdle ==
    /\ lines = <<>>
    /\ i = 0
    /\ functionLine = 0
    /\ previewType = "none"
    /\ codeLenses = <<>>
    /\ processedFunctions = {}
    /\ pc = "off"

(***************************************************************************)
(* The package-name pattern of findPackageForFile                          *)
(***************************************************************************)
\* [package]
PackageOpen == <<"[","p","a","c","k","a","g","e","]">>
\* name
NameKey == <<"n","a","m","e">>

\* position of the first "[" at or after k, Len(s) + 1 when there is none: where [^\[]* must stop
FirstBracket(s, k) ==
    LET opens == {r \in k..Len(s) : s[r] = "["}
    IN  IF opens = {} THEN Len(s) + 1 ELSE SetMin(opens)

\* name\s*=\s*"([^"]+)" matched at position r: the position of the opening quote, 0 for no match
NameQuoteAt(s, r) ==
    IF ~HasAt(s, r, NameKey) THEN 0
    ELSE LET eq == RunEnd(s, r + Len(NameKey), WhiteSpace) + 1
         IN  IF ~HasAt(s, eq, <<"=">>) THEN 0
             ELSE LET qt == RunEnd(s, eq + 1, WhiteSpace) + 1
                  IN  IF /\ HasAt(s, qt, <<"\"">>)
                         /\ \E c \in (qt + 2)..Len(s) : s[c] = "\""
                         /\ qt + 1 <= Len(s)
                         /\ s[qt + 1] # "\""
                      THEN qt ELSE 0

\* the capture ([^"]+) of a match whose opening quote is at qt
NameCapture(s, qt) ==
    SubSeq(s, qt + 1, SetMin({c \in (qt + 2)..Len(s) : s[c] = "\""}) - 1)

\* (?:[^\[]*\n)*?name...: from q, the position where the name assignment is
\* matched, 0 for none. Zero groups are tried first (the name at q); then the
\* groups end after a line feed that no "[" separates from q, the last one
\* first, since [^\[]* is greedy.
NamePositionFrom(s, q) ==
    IF NameQuoteAt(s, q) # 0 THEN q
    ELSE LET ends == {r \in (q + 1)..FirstBracket(s, q) :
                         s[r - 1] = "\n" /\ NameQuoteAt(s, r) # 0}
         IN  IF ends = {} THEN 0 ELSE SetMax(ends)

\* \[package\]\s*\n... matched at position k: the position of the name
\* assignment, 0 for none. \s* is greedy, so the last line feed of the blank
\* run after the header is tried first.
PackageAt(s, k) ==
    IF ~HasAt(s, k, PackageOpen) THEN 0
    ELSE LET p == k + Len(PackageOpen)
             after == {r \in (p + 1)..(RunEnd(s, p, WhiteSpace) + 1) :
                          s[r - 1] = "\n" /\ NamePositionFrom(s, r) # 0}
         IN  IF after = {} THEN 0 ELSE NamePositionFrom(s, SetMax(after))

\* a pattern that takes the first name assignment of any section
MatchAnySection(s) ==
    LET at == {k \in 1..Len(s) : NameQuoteAt(s, k) # 0}
    IN  IF at = {} THEN [matched |-> FALSE, name |-> <<>>]
        ELSE [matched |-> TRUE, name |-> NameCapture(s, NameQuoteAt(s, SetMin(at)))]

\* cargoTomlText.match(/\[package\]\s*\n(?:[^\[]*\n)*?name\s*=\s*"([^"]+)"/):
\* the leftmost match; name is packageMatch[1]
Match(s) ==
    LET at == {k \in 1..Len(s) : PackageAt(s, k) # 0}
    IN  IF at = {} THEN [matched |-> FALSE, name |-> <<>>]
        ELSE [matched |-> TRUE,
              name |-> NameCapture(s, NameQuoteAt(s, PackageAt(s, SetMin(at))))]

(***************************************************************************)
(* The rewriting of the base command                                       *)
(***************************************************************************)
\* [workspace]
WorkspaceMarker == <<"[","w","o","r","k","s","p","a","c","e","]">>
\* cargo run --bin preview
CanonicalRun == <<"c","a","r","g","o"," ","r","u","n"," ","-","-","b","i","n"," ","p","r","e","v","i","e","w">>
\* cargo run
CargoRun == <<"c","a","r","g","o"," ","r","u","n">>
\* cargo run -p 
CargoRunP == <<"c","a","r","g","o"," ","r","u","n"," ","-","p"," ">>
\*  --bin preview
BinPreview == <<" ","-","-","b","i","n"," ","p","r","e","v","i","e","w">>

\* String.prototype.indexOf, one-based, 0 when p does not occur
indexOf(s, p) ==
    LET at == {k \in 1..(Len(s) + 1) : HasAt(s, k, p)}
    IN  IF at = {} THEN 0 ELSE SetMin(at)

\* the grave accent (U+0060), which a TLA+ string cannot hold
Grave == "U+0060"

\* GetSubstitution of String.prototype.replace with a string pattern: in the
\* replacement, $$ is "$", $& the matched text, $ and a grave accent the text
\* before the match and $' the text after it; there is no capture, so every
\* other $ is literal
RECURSIVE GetSubstitution(_, _, _, _)
GetSubstitution(replacement, matched, before, after) ==
    IF replacement = <<>> THEN <<>>
    ELSE IF replacement[1] = "$" /\ Len(replacement) >= 2
              /\ replacement[2] \in {"$", "&", Grave, "'"}
         THEN (CASE replacement[2] = "$" -> <<"$">>
                 [] replacement[2] = "&" -> matched
                 [] replacement[2] = Grave -> before
                 [] OTHER -> after)
              \o GetSubstitution(SubSeq(replacement, 3, Len(replacement)), matched, before, after)
         ELSE <<replacement[1]>>
              \o GetSubstitution(Tail(replacement), matched, before, after)

\* String.prototype.replace(pattern, replacement) with a string pattern: the first occurrence only
replace(s, pattern, replacement) ==
    LET k == indexOf(s, pattern)
    IN  IF k = 0 THEN s
        ELSE LET before == SubSeq(s, 1, k - 1)
                 after == SubSeq(s, k + Len(pattern), Len(s))
             IN  before \o GetSubstitution(replacement, pattern, before, after) \o after

\* lines 147-158 and 166 of buildCargoCommand, for a package name that was found
PackageCommand(base, name) ==
    IF includes(base, CanonicalRun)
    THEN replace(base, CanonicalRun, CargoRunP \o name \o BinPreview)
    ELSE IF includes(base, CargoRun)
         THEN replace(base, CargoRun, CargoRunP \o name)
         ELSE base

\* a test that takes every root manifest for a workspace
IsWorkspaceAlways(text) == TRUE

\* workspaceTomlText.includes("[workspace]")
IsWorkspace(text) == includes(text, WorkspaceMarker)

\* a walk that visits the outermost directory first
PackagePathOutward(parts, k) == SubSeq(parts, 1, Len(parts) - k)

\* pathParts.slice(0, i): the directory whose Cargo.toml is read
PackagePath(parts, k) == SubSeq(parts, 1, k)

\* a loop that also reads the manifest of the project root
LoopContinuesToRoot(k) == k >= 0

\* the loop test i > 0
LoopContinues(k) == k > 0

\* a loop update that goes two directories outward
LoopUpdateByTwo(k) == k - 2

\* the loop update i--
LoopUpdate(k) == k - 1

\* a handler that gives the walk up: no farther directory is tried
CatchReturnsNull(k) == 0

\* catch (error) { continue; }: the loop goes on with its update
CatchContinue(k) == LoopUpdate(k)

\* a name kept from the previous call is returned in place of the one just read
FoundNameCached(matched, previous) == IF previous # <<>> THEN previous ELSE matched

\* return packageMatch[1]: the name just matched; nothing of an earlier call is consulted
FoundName(matched, previous) == matched

(***************************************************************************)
(* Manifests, directories and commands                                     *)
(***************************************************************************)
\* [workspace]\nmembers = ["a"]\n\n[package]\nname = "root"\n
ManifestWorkspace == <<"[","w","o","r","k","s","p","a","c","e","]","\n","m","e","m","b","e","r","s"," ","="," ","[","\"","a","\"","]","\n","\n","[","p","a","c","k","a","g","e","]","\n","n","a","m","e"," ","="," ","\"","r","o","o","t","\"","\n">>
\* [package]\nname = "demo"\nversion = "1"\n
ManifestDemo == <<"[","p","a","c","k","a","g","e","]","\n","n","a","m","e"," ","="," ","\"","d","e","m","o","\"","\n","v","e","r","s","i","o","n"," ","="," ","\"","1","\"","\n">>
\* [dependencies]\nname = "dep"\n
ManifestNoPackage == <<"[","d","e","p","e","n","d","e","n","c","i","e","s","]","\n","n","a","m","e"," ","="," ","\"","d","e","p","\"","\n">>
\* [package]\nversion = "1"\n[lib]\nname = "l"\n
ManifestNoName == <<"[","p","a","c","k","a","g","e","]","\n","v","e","r","s","i","o","n"," ","="," ","\"","1","\"","\n","[","l","i","b","]","\n","n","a","m","e"," ","="," ","\"","l","\"","\n">>
\* [package]\r\n\nname="a$&b"\n
ManifestDollar == <<"[","p","a","c","k","a","g","e","]","\r","\n","\n","n","a","m","e","=","\"","a","$","&","b","\"","\n">>

ManifestTexts ==
    {ManifestWorkspace, ManifestDemo, ManifestNoPackage, ManifestNoName, ManifestDollar}

\* fs.readFile throws
Unreadable == [readable |-> FALSE, text |-> <<>>]

Files == {Unreadable} \cup {[readable |-> TRUE, text |-> t] : t \in ManifestTexts}

SegmentNames == <<"crates", "demo", "src", "ui", "widgets">>

\* the project root is <<>>; the directories below it lie on one path
Directories == {SubSeq(SegmentNames, 1, k) : k \in 0..MaxDepth}

\* the relative paths of the source files: a file name in one of the directories
RelativePaths == {d \o <<"lib.rs">> : d \in Directories}

\* cargo run --bin preview
BaseDefault == <<"c","a","r","g","o"," ","r","u","n"," ","-","-","b","i","n"," ","p","r","e","v","i","e","w">>
\* X=1 cargo run --bin preview && cargo run --bin preview
BaseTwice == <<"X","=","1"," ","c","a","r","g","o"," ","r","u","n"," ","-","-","b","i","n"," ","p","r","e","v","i","e","w"," ","&","&"," ","c","a","r","g","o"," ","r","u","n"," ","-","-","b","i","n"," ","p","r","e","v","i","e","w">>
\* cargo run --release
BaseVerb == <<"c","a","r","g","o"," ","r","u","n"," ","-","-","r","e","l","e","a","s","e">>
\* cargo run -q; cargo run
BaseVerbTwice == <<"c","a","r","g","o"," ","r","u","n"," ","-","q",";"," ","c","a","r","g","o"," ","r","u","n">>
\* make preview
BaseOther == <<"m","a","k","e"," ","p","r","e","v","i","e","w">>

BaseCommands == {BaseDefault, BaseTwice, BaseVerb, BaseVerbTwice, BaseOther}

(***************************************************************************)
(* buildCargoCommand and findPackageForFile                                *)
(***************************************************************************)
ResolveInit ==
    /\ fs \in [Directories -> Files]
    /\ baseCommand = <<>>
    /\ pathParts = <<>>
    /\ walkI = 0
    /\ packageName = <<>>
    /\ command = <<>>
    /\ reads = <<>>
    /\ previousName = <<>>
    /\ rpc = "idle"

\* no resolution in progress, no manifest on disk
ResolveIdle ==
    /\ fs = [d \in Directories |-> Unreadable]
    /\ baseCommand = <<>>
    /\ pathParts = <<>>
    /\ walkI = 0
    /\ packageName = <<>>
    /\ command = <<>>
    /\ reads = <<>>
    /\ previousName = <<>>
    /\ rpc = "idle"

\* a manifest is written, changed or removed between two resolutions
EditManifest ==
    /\ rpc = "idle"
    /\ \E d \in Directories, f \in Files : fs' = [fs EXCEPT ![d] = f]
    /\ UNCHANGED <<baseCommand, pathParts, walkI, packageName, command, reads, previousName>>
    /\ UNCHANGED rpc
    /\ UNCHANGED <<scanVars, extractVars, previewVars>>

\* runPreview calls buildCargoCommand(baseCommand, uri, workspaceFolder)
BuildCargoCommand ==
    /\ rpc = "idle"
    /\ \E b \in BaseCommands, p \in RelativePaths :
          /\ baseCommand' = b
          /\ pathParts' = p
    /\ walkI' = 0
    /\ packageName' = <<>>
    /\ command' = <<>>
    /\ reads' = <<>>
    /\ rpc' = "root"
    /\ UNCHANGED <<fs, previousName>>
    /\ UNCHANGED <<scanVars, extractVars, previewVars>>

\* await fs.readFile(workspaceCargoToml) and the [workspace] test
ReadRootManifest ==
    /\ rpc = "root"
    /\ reads' = Append(reads, <<>>)
    /\ IF fs[<<>>].readable /\ IsWorkspace(fs[<<>>].text)
       THEN \* findPackageForFile is called: let i = pathParts.length - 1
            /\ walkI' = Len(pathParts) - 1
            /\ rpc' = "walk"
            /\ UNCHANGED command
       ELSE \* the read threw (caught at line 161) or there is no [workspace]: line 166
            /\ command' = baseCommand
            /\ rpc' = "done"
            /\ UNCHANGED walkI
    /\ UNCHANGED <<fs, baseCommand, pathParts, packageName, previousName>>
    /\ UNCHANGED <<scanVars, extractVars, previewVars>>

\* one iteration of the loop of findPackageForFile: await fs.readFile(cargoTomlPath)
ReadPackageManifest ==
    /\ rpc = "walk"
    /\ LoopContinues(walkI)
    /\ LET dir == PackagePath(pathParts, walkI)
           file == fs[dir]
       IN  /\ reads' = Append(reads, dir)
           /\ IF file.readable /\ Match(file.text).matched
              THEN \* return packageMatch[1]; buildCargoCommand rewrites the command
                   /\ packageName' = FoundName(Match(file.text).name, previousName)
                   /\ command' = PackageCommand(baseCommand, FoundName(Match(file.text).name, previousName))
                   /\ rpc' = "done"
                   /\ UNCHANGED walkI
              ELSE \* the read threw (continue) or nothing matched: i--
                   /\ walkI' = IF file.readable THEN LoopUpdate(walkI) ELSE CatchContinue(walkI)
                   /\ UNCHANGED <<packageName, command, rpc>>
    /\ UNCHANGED <<fs, baseCommand, pathParts, previousName>>
    /\ UNCHANGED <<scanVars, extractVars, previewVars>>

\* the loop ends: return null, and buildCargoCommand returns baseCommand
NoPackageFound ==
    /\ rpc = "walk"
    /\ ~LoopContinues(walkI)
    /\ packageName' = <<>>
    /\ command' = baseCommand
    /\ rpc' = "done"
    /\ UNCHANGED <<fs, baseCommand, pathParts, walkI, reads, previousName>>
    /\ UNCHANGED <<scanVars, extractVars, previewVars>>

\* the caller has taken the command; the call's locals are gone and the next
\* resolution may start
ResolveReturned ==
    /\ rpc = "done"
    /\ baseCommand' = <<>>
    /\ pathParts' = <<>>
    /\ walkI' = 0
    /\ packageName' = <<>>
    /\ command' = <<>>
    /\ reads' = <<>>
    /\ previousName' = packageName
    /\ rpc' = "idle"
    /\ UNCHANGED fs
    /\ UNCHANGED <<scanVars, extractVars, previewVars>>

ResolveNext ==
    \/ EditManifest
    \/ BuildCargoCommand
    \/ ReadRootManifest
    \/ ReadPackageManifest
    \/ NoPackageFound
    \/ ResolveReturned

(***************************************************************************)
(* The package-name pattern applied to one manifest text                   *)
(***************************************************************************)
\* [package]
MLinePackage == <<"[","p","a","c","k","a","g","e","]">>
\* name = "demo"
MLineNameDemo == <<"n","a","m","e"," ","="," ","\"","d","e","m","o","\"">>
\* name = "dep"
MLineNameDep == <<"n","a","m","e"," ","="," ","\"","d","e","p","\"">>
\* version = "1"
MLineVersion == <<"v","e","r","s","i","o","n"," ","="," ","\"","1","\"">>
\* authors = ["a"]
MLineAuthors == <<"a","u","t","h","o","r","s"," ","="," ","[","\"","a","\"","]">>
\* [dependencies]
MLineDependencies == <<"[","d","e","p","e","n","d","e","n","c","i","e","s","]">>
\* 
MLineBlank == <<>>

ManifestLineForms ==
    {MLinePackage, MLineNameDemo, MLineNameDep, MLineVersion, MLineAuthors,
     MLineDependencies, MLineBlank}

\* the text of a manifest: its lines, each ended by a line feed
RECURSIVE JoinLines(_)
JoinLines(ls) == IF ls = <<>> THEN <<>> ELSE Head(ls) \o <<"\n">> \o JoinLines(Tail(ls))

ExtractInit ==
    /\ manifestLines \in UNION {[1..n -> ManifestLineForms] : n \in 1..MaxManifestLines}
    /\ packageMatch = [matched |-> FALSE, name |-> <<>>]
    /\ epc = "read"

\* no extraction in progress
ExtractIdle ==
    /\ manifestLines = <<>>
    /\ packageMatch = [matched |-> FALSE, name |-> <<>>]
    /\ epc = "off"

\* const packageMatch = cargoTomlText.match(...)
MatchPackageName ==
    /\ epc = "read"
    /\ packageMatch' = Match(JoinLines(manifestLines))
    /\ epc' = "done"
    /\ UNCHANGED manifestLines
    /\ UNCHANGED <<scanVars, resolveVars, previewVars>>

ExtractNext == MatchPackageName

(***************************************************************************)
(* runPreview                                                              *)
(***************************************************************************)
Activations == 1..MaxActivations

\* a setting the user has not set
Unset == [set |-> FALSE, value |-> <<>>]

\* a setting with a value
Setting(v) == [set |-> TRUE, value |-> v]

\* config.get(key, defaultValue)
get(setting, defaultValue) == IF setting.set THEN setting.value ELSE defaultValue

\* the values of snowscape.previewSelectionMethod: the two documented ones,
\* one no branch names, and the empty string
SelectionMethods == {"argument", "environment", "Argument", ""}

Settings ==
    [previewCommand : {Unset, Setting(BaseVerb)},
     previewSelectionMethod : {Unset} \cup {Setting(v) : v \in SelectionMethods}]

\* the names of the functions a code lens passes to the command
FunctionNames == {<<"a">>, <<"b","_","1">>}

\* lib.rs at the root of the workspace folder, and crates/demo/lib.rs
PreviewPaths == {<<"lib.rs">>, <<"crates", "demo", "lib.rs">>}

\* no manifest at all
FsNone == [d \in Directories |-> Unreadable]

\* a root manifest without [workspace]
FsSingle ==
    [d \in Directories |->
        IF d = <<>> THEN [readable |-> TRUE, text |-> ManifestDemo] ELSE Unreadable]

\* a workspace whose package manifest lies one level under the root
FsWorkspace ==
    [d \in Directories |->
        IF d = <<>> THEN [readable |-> TRUE, text |-> ManifestWorkspace]
        ELSE IF Len(d) = 1 THEN [readable |-> TRUE, text |-> ManifestDemo]
        ELSE Unreadable]

PreviewFileSystems == {FsNone, FsSingle, FsWorkspace}

\* `Snowscape: ${functionName}`
terminalName(functionName) == <<"S","n","o","w","s","c","a","p","e",":"," ">> \o functionName

\* a terminal: its name, whether runPreview created it, and the texts sent to it
Terminal(name, created) == [name |-> name, created |-> created, sent |-> <<>>]

\* a terminal of the user's own
TerminalBash == Terminal(<<"b","a","s","h">>, FALSE)

\* a search that finds no terminal
findNothing(ts, name) == 0

\* vscode.window.terminals.find((t) => t.name === terminalName): the index of
\* the first terminal of that name, 0 for undefined
find(ts, name) ==
    LET at == {k \in DOMAIN ts : ts[k].name = name}
    IN  IF at = {} THEN 0 ELSE SetMin(at)

\* vscode.window.createTerminal({name: terminalName, ...}): the terminal is
\* in vscode.window.terminals, under that name, when the call returns
createTerminal(ts, name) == Append(ts, Terminal(name, TRUE))

\* a choice that takes every value but "environment" for the argument form
finalCommandUnlessEnvironment(selectionMethod, resolved, functionName) ==
    IF selectionMethod # "environment"
    THEN resolved \o <<" ","-","-","p","r","e","v","i","e","w","=">> \o functionName
    ELSE <<"S","N","O","W","S","C","A","P","E","_","P","R","E","V","I","E","W","=","\"">>
            \o functionName \o <<"\""," ">> \o resolved

\* `${command} --preview=${functionName}` or `SNOWSCAPE_PREVIEW="${functionName}" ${command}`
finalCommand(selectionMethod, resolved, functionName) ==
    IF selectionMethod = "argument"
    THEN resolved \o <<" ","-","-","p","r","e","v","i","e","w","=">> \o functionName
    ELSE <<"S","N","O","W","S","C","A","P","E","_","P","R","E","V","I","E","W","=","\"">>
            \o functionName \o <<"\""," ">> \o resolved

\* an activation that has not started
NotStarted ==
    [apc |-> "idle", folder |-> FALSE, functionName |-> <<>>, pathParts |-> <<>>,
     walkI |-> 0, command |-> <<>>]

PreviewInit ==
    /\ settings \in Settings
    /\ terminals \in {<<>>, <<TerminalBash>>,
                      <<TerminalBash, Terminal(terminalName(<<"a">>), FALSE)>>}
    /\ activations = [a \in Activations |-> NotStarted]
    /\ fs \in PreviewFileSystems
    /\ baseCommand = <<>>
    /\ pathParts = <<>>
    /\ walkI = 0
    /\ packageName = <<>>
    /\ command = <<>>
    /\ reads = <<>>
    /\ previousName = <<>>
    /\ rpc = "idle"

\* no activation, default settings, no terminal
PreviewIdle ==
    /\ settings = [previewCommand |-> Unset, previewSelectionMethod |-> Unset]
    /\ terminals = <<>>
    /\ activations = [a \in Activations |-> NotStarted]

\* the command is run on a file outside every workspace folder: the error
\* message is shown and runPreview returns
RunPreviewNoFolder ==
    /\ \E a \in Activations, f \in FunctionNames :
          /\ activations[a].apc = "idle"
          /\ activations' = [activations EXCEPT ![a] =
                [NotStarted EXCEPT !.apc = "done", !.functionName = f]]
    /\ UNCHANGED <<settings, terminals>>
    /\ UNCHANGED <<scanVars, resolveVars, extractVars>>

\* the command is run: runPreview reads the base command and calls buildCargoCommand
RunPreview ==
    /\ \E a \in Activations, f \in FunctionNames, p \in PreviewPaths :
          /\ activations[a].apc = "idle"
          /\ activations' = [activations EXCEPT ![a] =
                [apc |-> "root", folder |-> TRUE, functionName |-> f, pathParts |-> p,
                 walkI |-> 0, command |-> <<>>]]
    /\ UNCHANGED <<settings, terminals>>
    /\ UNCHANGED <<scanVars, resolveVars, extractVars>>

\* an activation's await fs.readFile(workspaceCargoToml) and the [workspace] test
PreviewReadRoot ==
    /\ \E a \in Activations :
          /\ activations[a].apc = "root"
          /\ activations' = [activations EXCEPT ![a] =
                IF fs[<<>>].readable /\ IsWorkspace(fs[<<>>].text)
                THEN [@ EXCEPT !.apc = "walk", !.walkI = Len(activations[a].pathParts) - 1]
                ELSE [@ EXCEPT !.apc = "resolved",
                               !.command = get(settings.previewCommand, BaseDefault)]]
    /\ UNCHANGED <<settings, terminals>>
    /\ UNCHANGED <<scanVars, resolveVars, extractVars>>

\* one iteration of an activation's walk: await fs.readFile(cargoTomlPath)
PreviewReadPackage ==
    /\ \E a \in Activations :
          /\ activations[a].apc = "walk"
          /\ LoopContinues(activations[a].walkI)
          /\ LET file == fs[PackagePath(activations[a].pathParts, activations[a].walkI)]
             IN  activations' = [activations EXCEPT ![a] =
                    IF file.readable /\ Match(file.text).matched
                    THEN [@ EXCEPT !.apc = "resolved",
                                   !.command = PackageCommand(
                                       get(settings.previewCommand, BaseDefault),
                                       Match(file.text).name)]
                    ELSE [@ EXCEPT !.walkI = IF file.readable
                                             THEN LoopUpdate(activations[a].walkI)
                                             ELSE CatchContinue(activations[a].walkI)]]
    /\ UNCHANGED <<settings, terminals>>
    /\ UNCHANGED <<scanVars, resolveVars, extractVars>>

\* an activation's walk ends without a package: buildCargoCommand returns baseCommand
PreviewNoPackage ==
    /\ \E a \in Activations :
          /\ activations[a].apc = "walk"
          /\ ~LoopContinues(activations[a].walkI)
          /\ activations' = [activations EXCEPT ![a] =
                [@ EXCEPT !.apc = "resolved",
                          !.command = get(settings.previewCommand, BaseDefault)]]
    /\ UNCHANGED <<settings, terminals>>
    /\ UNCHANGED <<scanVars, resolveVars, extractVars>>

\* runPreview goes on after its await, without another await: the terminal is
\* found or created, shown, and the final command is sent to it
SendToTerminal ==
    /\ \E a \in Activations :
          /\ activations[a].apc = "resolved"
          /\ LET name == terminalName(activations[a].functionName)
                 found == find(terminals, name)
                 ts == IF found = 0 THEN createTerminal(terminals, name) ELSE terminals
                 terminal == IF found = 0 THEN Len(ts) ELSE found
                 selectionMethod == get(settings.previewSelectionMethod, "environment")
                 text == finalCommand(selectionMethod, activations[a].command,
                                      activations[a].functionName)
             IN  terminals' = [ts EXCEPT ![terminal].sent =
                                  Append(@, [by |-> a, text |-> text])]
          /\ activations' = [activations EXCEPT ![a] =
                [@ EXCEPT !.apc = "done", !.pathParts = <<>>, !.walkI = 0]]
    /\ UNCHANGED settings
    /\ UNCHANGED <<scanVars, resolveVars, extractVars>>

PreviewNext ==
    \/ RunPreviewNoFolder
    \/ RunPreview
    \/ PreviewReadRoot
    \/ PreviewReadPackage
    \/ PreviewNoPackage
    \/ SendToTerminal

InitScan == ScanInit /\ ResolveIdle /\ ExtractIdle /\ PreviewIdle

SpecScan == InitScan /\ [][ScanNext]_vars

InitResolve == ScanIdle /\ ResolveInit /\ ExtractIdle /\ PreviewIdle

SpecResolve == InitResolve /\ [][ResolveNext]_vars

InitExtract == ScanIdle /\ ResolveIdle /\ ExtractInit /\ PreviewIdle

SpecExtract == InitExtract /\ [][ExtractNext]_vars

InitPreview == ScanIdle /\ ExtractIdle /\ PreviewInit

SpecPreview == InitPreview /\ [][PreviewNext]_vars

(***************************************************************************)
(* Properties of the scan                                                  *)
(***************************************************************************)
LineIndexes == 0..(Len(lines) - 1)

Trimmed(k) == trim(lines[k + 1])

\* line k is recognized as a marker by one of the two patterns
IsMarkerLine(k) == statelessRegex(Trimmed(k)) \/ statefulRegex(Trimmed(k))

\* line k starts a function declaration whose identifier can be read
IsDeclarationLine(k) ==
    IsFunctionDefinition(Trimmed(k)) /\ functionNameMatch(Trimmed(k)) # <<>>

\* marker line m is stacked above line d: only skipped lines lie between them
Reaches(m, d) ==
    /\ m < d
    /\ IsMarkerLine(m)
    /\ \A k \in (m + 1)..(d - 1) : IsSkipped(Trimmed(k))
    /\ ~IsSkipped(Trimmed(d))

MarkersAbove(d) == {m \in LineIndexes : Reaches(m, d)}

LensesAt(d) == {k \in DOMAIN codeLenses : codeLenses[k].line = d}

\* C1: a declaration line never gets more than one action target, however
\* many recognized markers of either kind are stacked above it, and when the
\* scan has returned, a declaration reached by at least one stacked marker
\* has exactly one.
C1_OneTargetPerDeclaration ==
    /\ \A d \in LineIndexes : Cardinality(LensesAt(d)) <= 1
    /\ pc = "done" =>
          \A d \in LineIndexes :
             (IsDeclarationLine(d) /\ MarkersAbove(d) # {}) => Cardinality(LensesAt(d)) = 1

\* the scan returned for a declaration under two stacked markers of different kinds
C1_Witness ==
    /\ pc = "done"
    /\ \E d \in LineIndexes :
          /\ IsDeclarationLine(d)
          /\ \E m1, m2 \in MarkersAbove(d) :
                /\ m1 # m2
                /\ statelessRegex(Trimmed(m1))
                /\ ~statelessRegex(Trimmed(m2))
          /\ Cardinality(LensesAt(d)) = 1

\* C2: when the scan has returned, a declaration with exactly one recognized
\* marker above it (only blank, attribute or line-comment lines in between)
\* has exactly one action target; the target is on the declaration line and
\* carries the declared name, and none is on the marker's line.
C2_SingleMarkerTargetOnDeclaration ==
    pc = "done" =>
       \A d \in LineIndexes :
          (IsDeclarationLine(d) /\ Cardinality(MarkersAbove(d)) = 1) =>
             /\ Cardinality(LensesAt(d)) = 1
             /\ \A k \in LensesAt(d) : codeLenses[k].name = functionNameMatch(Trimmed(d))
             /\ \A m \in MarkersAbove(d) : ~IsDeclarationLine(m) => LensesAt(m) = {}

\* the scan returned for a `pub async fn` with one marker and a skipped line above it
C2_Witness ==
    /\ pc = "done"
    /\ \E d \in LineIndexes :
          /\ startsWith(Trimmed(d), <<"p","u","b"," ","a","s","y","n","c"," ","f","n"," ">>)
          /\ Cardinality(MarkersAbove(d)) = 1
          /\ \E m \in MarkersAbove(d) : d - m >= 2 /\ LensesAt(m) = {}
          /\ Cardinality(LensesAt(d)) = 1

ParenCount(s, c) == Cardinality({k \in 1..Len(s) : s[k] = c})

\* the line holds the opening of a stateful marker, its parentheses do not
\* balance, and it holds no stateless marker
UnbalancedStatefulMarker(s) ==
    /\ includes(s, StatefulOpen)
    /\ ParenCount(s, "(") # ParenCount(s, ")")
    /\ ~includes(s, StatelessOpen)

\* C3: a stateful marker with unbalanced parentheses is never recognized: no
\* step of the scan emits an action target while the marker line being
\* processed is such a line.
C3_UnbalancedStatefulNoTarget ==
    [][Len(codeLenses') > Len(codeLenses) => ~UnbalancedStatefulMarker(Trimmed(i))]_vars

\* C4: the action targets are in strictly ascending order of declaration line.
C4_AscendingLines ==
    \A j, k \in DOMAIN codeLenses : j < k => codeLenses[j].line < codeLenses[k].line

\* the scan returned two targets or more
C4_Witness == pc = "done" /\ Len(codeLenses) >= 2

\* C15: a stateful marker without payload is not recognized: no step of the
\* scan emits an action target while the marker line being processed is
\* `#[snowscape::stateful()]` or `#[snowscape::stateful]`.
C15_StatefulNeedsPayload ==
    [][Len(codeLenses') > Len(codeLenses) =>
          Trimmed(i) \notin {LineStatefulEmpty, LineStatefulBare}]_vars

\* the kind a marker line carries
KindOfMarker(s) == IF statelessRegex(s) THEN "stateless" ELSE "stateful"

\* every target carries the kind of the topmost marker stacked above its line
KindOfTopmostMarker ==
    \A d \in LineIndexes : \A k \in LensesAt(d) :
       /\ MarkersAbove(d) # {}
       /\ codeLenses[k].kind = KindOfMarker(Trimmed(SetMin(MarkersAbove(d))))

\* a target, once emitted, stays as it is
TargetsKept ==
    \A k \in DOMAIN codeLenses : k \in DOMAIN codeLenses' /\ codeLenses'[k] = codeLenses[k]

\* C16: when markers of different kinds are stacked above one function, the
\* target carries the kind of the topmost recognized marker, and the markers
\* processed later never change a target already emitted.
C16_FirstMarkerKindWins == []KindOfTopmostMarker /\ [][TargetsKept]_vars

\* the scan returned a stateful target for a declaration under a stateful
\* marker with a stateless marker below it
C16_Witness ==
    /\ pc = "done"
    /\ \E d \in LineIndexes :
          /\ IsDeclarationLine(d)
          /\ \E m1, m2 \in MarkersAbove(d) :
                /\ m1 < m2
                /\ KindOfMarker(Trimmed(m1)) = "stateful"
                /\ KindOfMarker(Trimmed(m2)) = "stateless"
          /\ \E k \in LensesAt(d) : codeLenses[k].kind = "stateful"

\* the lines the lookahead is to pass over: blank, starting with #[, starting with //
InSkipSet(s) ==
    \/ s = <<>>
    \/ (Len(s) >= 2 /\ s[1] = "#" /\ s[2] = "[")
    \/ (Len(s) >= 2 /\ s[1] = "/" /\ s[2] = "/")

\* the first line after line m that is not in the skip set, -1 at end of file
DecidingLine(m) ==
    LET after == {k \in LineIndexes : k > m /\ ~InSkipSet(Trimmed(k))}
    IN  IF after = {} THEN 0 - 1 ELSE SetMin(after)

\* a step that emits a target puts it on the deciding line of the marker
\* being processed, and that line is a function declaration
EmitsOnDecidingLine ==
    Len(codeLenses') > Len(codeLenses) =>
       /\ DecidingLine(i) >= 0
       /\ IsFunctionDefinition(Trimmed(DecidingLine(i)))
       /\ codeLenses'[Len(codeLenses')].line = DecidingLine(i)

\* C18: the lookahead passes over blank lines, lines starting with #[ and
\* lines starting with // only; the first other line after the marker
\* decides: when it is not a function declaration, or the file ends first,
\* the marker emits no target, also when a declaration comes later.
C18_FirstOtherLineDecides == [][EmitsOnDecidingLine]_vars

\* the scan returned no target for a marker followed by a code line and then
\* a function declaration
C18_Witness ==
    /\ pc = "done"
    /\ codeLenses = <<>>
    /\ \E m \in LineIndexes :
          /\ IsMarkerLine(m)
          /\ DecidingLine(m) >= 0
          /\ ~IsFunctionDefinition(Trimmed(DecidingLine(m)))
          /\ \E d \in LineIndexes : d > DecidingLine(m) /\ IsDeclarationLine(d)

\* the line holds a marker, and not at its start
UnanchoredMarker(s) ==
    /\ ~StatelessAt(s, 1)
    /\ ~StatefulAt(s, 1)
    /\ \E k \in 2..Len(s) : StatelessAt(s, k) \/ StatefulAt(s, k)

\* C20: a marker is recognized anywhere in the trimmed line: when the scan
\* has returned, a function declaration that follows a line holding a marker
\* after other text (a line comment, or code), with only lines of the skip
\* set in between, has an action target.
C20_UnanchoredMarkerRecognized ==
    pc = "done" =>
       \A m, d \in LineIndexes :
          (/\ m < d
           /\ UnanchoredMarker(Trimmed(m))
           /\ \A k \in (m + 1)..(d - 1) : InSkipSet(Trimmed(k))
           /\ IsDeclarationLine(d))
             => Cardinality(LensesAt(d)) = 1

\* the scan returned a target under a line comment that holds a marker and a
\* target under a code line that holds a marker, each the only marker above
\* its declaration
C20_Witness ==
    /\ pc = "done"
    /\ \E m1, m2 \in LineIndexes :
          /\ UnanchoredMarker(Trimmed(m1))
          /\ startsWith(Trimmed(m1), <<"/","/">>)
          /\ UnanchoredMarker(Trimmed(m2))
          /\ ~startsWith(Trimmed(m2), <<"/","/">>)
          /\ \A m \in {m1, m2} :
                /\ m + 1 \in LineIndexes
                /\ IsDeclarationLine(m + 1)
                /\ MarkersAbove(m + 1) = {m}
                /\ Cardinality(LensesAt(m + 1)) = 1

(***************************************************************************)
(* Properties of the command resolution                                    *)
(***************************************************************************)
\* the package name each manifest of ManifestTexts declares in its [package]
\* section, <<>> when it declares none
DeclaredName(text) ==
    CASE text = ManifestWorkspace -> <<"r","o","o","t">>
      [] text = ManifestDemo -> <<"d","e","m","o">>
      [] text = ManifestDollar -> <<"a","$","&","b">>
      [] OTHER -> <<>>

\* the manifests without a [package] section, or without a name in it
ManifestsWithoutName == {ManifestNoPackage, ManifestNoName}

\* the directories from the file's parent up to the first level under the root
AncestorLevels == 1..(Len(pathParts) - 1)

AncestorDir(k) == SubSeq(pathParts, 1, k)

\* the ancestor levels whose manifest, in file system f, declares a package name
NamedLevels(f) ==
    {k \in AncestorLevels : f[AncestorDir(k)].readable /\ DeclaredName(f[AncestorDir(k)].text) # <<>>}

\* the name declared nearest to the file, <<>> when no ancestor declares one
NearestName(f) ==
    IF NamedLevels(f) = {} THEN <<>>
    ELSE DeclaredName(f[AncestorDir(SetMax(NamedLevels(f)))].text)

RootIsWorkspace(f) == f[<<>>].readable /\ includes(f[<<>>].text, WorkspaceMarker)

\* the command with its first `cargo run --bin preview` scoped to package p
ScopedCanonical(base, p) ==
    LET k == indexOf(base, CanonicalRun)
    IN  SubSeq(base, 1, k - 1) \o CargoRunP \o p \o BinPreview
           \o SubSeq(base, k + Len(CanonicalRun), Len(base))

\* C5: when the root manifest is readable and holds no [workspace] marker,
\* the resolution returns the base command unchanged, whatever the file path
\* and the ancestors' manifests.
C5_NoWorkspaceUnchanged ==
    (rpc = "done" /\ fs[<<>>].readable /\ ~includes(fs[<<>>].text, WorkspaceMarker))
       => command = baseCommand

\* a resolution returned under a root without [workspace], for a file whose
\* ancestor declares a package and a base command that holds the canonical form
C5_Witness ==
    /\ rpc = "done"
    /\ fs[<<>>].readable
    /\ ~includes(fs[<<>>].text, WorkspaceMarker)
    /\ NamedLevels(fs) # {}
    /\ includes(baseCommand, CanonicalRun)
    /\ command = baseCommand

\* C6: when a package name P was found and the base command holds
\* `cargo run --bin preview`, the command returned is the base command with
\* the first occurrence replaced by `cargo run -p P --bin preview` and every
\* other character unchanged.
C6_CanonicalScoped ==
    (rpc = "done" /\ packageName # <<>> /\ includes(baseCommand, CanonicalRun))
       => command = ScopedCanonical(baseCommand, packageName)

\* C7: in a workspace, when ancestors of the file declare package names, the
\* name found is the one declared nearest to the file.
C7_NearestWins ==
    (rpc = "done" /\ RootIsWorkspace(fs) /\ NamedLevels(fs) # {})
       => packageName = NearestName(fs)

\* a resolution returned with two ancestors declaring different names
C7_Witness ==
    /\ rpc = "done"
    /\ RootIsWorkspace(fs)
    /\ \E j, k \in NamedLevels(fs) :
          /\ j < k
          /\ DeclaredName(fs[AncestorDir(j)].text) # DeclaredName(fs[AncestorDir(k)].text)
    /\ packageName = NearestName(fs)

\* C8: in a workspace, when no directory from the file's parent up to the
\* first level under the root declares a package name, no package is found
\* and the base command is returned unchanged; the root manifest's own
\* package name is never used.
C8_NoAncestorUnchanged ==
    (rpc = "done" /\ RootIsWorkspace(fs) /\ NamedLevels(fs) = {})
       => packageName = <<>> /\ command = baseCommand

\* a resolution returned for a file two directories deep or more, every
\* ancestor manifest read and none declaring a name, under a root manifest
\* that declares a package of its own
C8_Witness ==
    /\ rpc = "done"
    /\ RootIsWorkspace(fs)
    /\ DeclaredName(fs[<<>>].text) # <<>>
    /\ Len(pathParts) >= 3
    /\ NamedLevels(fs) = {}
    /\ Len(reads) = Len(pathParts)
    /\ includes(baseCommand, CargoRun)
    /\ command = baseCommand

\* file system f with the manifest of ancestor level k removed
WithoutManifest(f, k) == [f EXCEPT ![AncestorDir(k)] = Unreadable]

\* what the resolution returns under file system f, by the manifests' declarations
ResolvedCommand(f) ==
    IF RootIsWorkspace(f) /\ NearestName(f) # <<>>
    THEN PackageCommand(baseCommand, NearestName(f))
    ELSE baseCommand

\* C9: an ancestor manifest without a [package] section, or without a name
\* in it, changes nothing: the package found and the command returned are
\* those obtained when that manifest does not exist.
C9_NamelessManifestAsMissing ==
    rpc = "done" =>
       \A k \in AncestorLevels :
          (fs[AncestorDir(k)].readable /\ fs[AncestorDir(k)].text \in ManifestsWithoutName) =>
             /\ RootIsWorkspace(fs) => packageName = NearestName(WithoutManifest(fs, k))
             /\ command = ResolvedCommand(WithoutManifest(fs, k))

\* a resolution returned the name of a farther ancestor, past a nearer
\* manifest that declares no package name
C9_Witness ==
    /\ rpc = "done"
    /\ RootIsWorkspace(fs)
    /\ \E j, k \in AncestorLevels :
          /\ j < k
          /\ fs[AncestorDir(k)].readable
          /\ fs[AncestorDir(k)].text \in ManifestsWithoutName
          /\ NamedLevels(fs) = {j}
          /\ packageName = DeclaredName(fs[AncestorDir(j)].text)
          /\ command = PackageCommand(baseCommand, packageName)
          /\ command # baseCommand

\* the command with ` -p P` put right after its first `cargo run`
VerbScoped(base, p) ==
    LET k == indexOf(base, CargoRun)
    IN  SubSeq(base, 1, k + Len(CargoRun) - 1) \o <<" ","-","p"," ">> \o p
           \o SubSeq(base, k + Len(CargoRun), Len(base))

\* C11: when a package name P was found and the base command does not hold
\* `cargo run --bin preview`: if it holds `cargo run`, the command returned is
\* the base command with ` -p P` inserted right after the first `cargo run`
\* and every other character unchanged; if it does not hold `cargo run`, the
\* command returned is the base command.
C11_BareVerbScoped ==
    (rpc = "done" /\ packageName # <<>> /\ ~includes(baseCommand, CanonicalRun))
       => command = IF includes(baseCommand, CargoRun)
                    THEN VerbScoped(baseCommand, packageName)
                    ELSE baseCommand

\* the ancestor levels whose manifest cannot be read
UnreadableLevels(f) == {k \in AncestorLevels : ~f[AncestorDir(k)].readable}

\* what holds of a resolution that returned, whatever reads failed
ReturnsDespiteFailures ==
    rpc = "done" =>
       /\ command \in {baseCommand, PackageCommand(baseCommand, packageName)}
       /\ ~fs[<<>>].readable => (command = baseCommand /\ reads = <<<<>>>>)
       /\ (/\ RootIsWorkspace(fs)
           /\ NamedLevels(fs) # {}
           /\ \E k \in UnreadableLevels(fs) : k > SetMax(NamedLevels(fs)))
             => packageName = NearestName(fs)

\* the number of steps a resolution in progress can still take
StepsLeft ==
    CASE rpc = "root" -> Len(pathParts) + 2
      [] rpc = "walk" -> walkI + 1
      [] OTHER -> 0

\* a step of a resolution in progress brings it nearer to its return
StepsTowardsReturn ==
    (rpc = "root" \/ rpc = "walk") => (rpc' \in {"walk", "done"} /\ StepsLeft' < StepsLeft)

\* C12: a resolution never raises. Whatever manifests are missing, unreadable
\* or malformed, every step of a call in progress brings it nearer to its
\* return, and it returns a command; with an unreadable root manifest it
\* returns the base command and reads no ancestor manifest; an unreadable
\* manifest nearer to the file does not keep the name of a farther ancestor
\* from being found.
C12_NeverRaises == []ReturnsDespiteFailures /\ [][StepsTowardsReturn]_vars

\* a resolution returned the name of a farther ancestor, past a nearer
\* directory whose manifest cannot be read
C12_Witness ==
    /\ rpc = "done"
    /\ RootIsWorkspace(fs)
    /\ \E j, k \in AncestorLevels :
          /\ j < k
          /\ k \in UnreadableLevels(fs)
          /\ NamedLevels(fs) = {j}
          /\ packageName = DeclaredName(fs[AncestorDir(j)].text)
    /\ command # baseCommand

\* C13: a resolution's result depends only on its inputs and on the manifests
\* on disk at the time of the call, whatever earlier calls found and whatever
\* edits were made between the calls: the package found and the command
\* returned are those the manifests now on disk determine for this file and
\* this base command.
C13_FreshOnEveryCall ==
    rpc = "done" =>
       /\ packageName = IF RootIsWorkspace(fs) THEN NearestName(fs) ELSE <<>>
       /\ command = ResolvedCommand(fs)

\* a call returned a package name after the previous call had found another
\* name, which no manifest on disk declares any more
C13_Witness ==
    /\ rpc = "done"
    /\ previousName # <<>>
    /\ \A d \in Directories : fs[d].readable => DeclaredName(fs[d].text) # previousName
    /\ packageName # <<>>
    /\ command = PackageCommand(baseCommand, packageName)

\* the k-th manifest a resolution reads: the root's, then the ancestors' from
\* the file's directory outward
ExpectedRead(k) == IF k = 1 THEN <<>> ELSE AncestorDir(Len(pathParts) - (k - 1))

\* the manifest of directory d declares a package name
YieldsName(d) == fs[d].readable /\ DeclaredName(fs[d].text) # <<>>

\* the reads of the call in progress are in order, none repeated, and none
\* follows a read that yielded a name
ReadsInOrder ==
    /\ rpc = "root" => reads = <<>>
    /\ rpc \in {"walk", "done"} =>
          /\ Len(reads) \in 1..Len(pathParts)
          /\ \A k \in DOMAIN reads : reads[k] = ExpectedRead(k)
          /\ \A j, k \in DOMAIN reads : j < k => reads[j] # reads[k]
          /\ \A k \in 2..(Len(reads) - 1) : ~YieldsName(reads[k])
          /\ (rpc = "walk" /\ Len(reads) >= 2) => ~YieldsName(reads[Len(reads)])
          /\ (rpc = "done" /\ packageName # <<>>) =>
                (Len(reads) >= 2 /\ YieldsName(reads[Len(reads)]))

\* a step issues one read at most
OneReadPerStep == Len(reads') <= Len(reads) + 1

\* C17: within one resolution the manifests are read one at a time, the
\* root's first and then the ancestors' from the nearest to the farthest;
\* after a read that yields a package name no manifest is read, and no
\* directory's manifest is read twice.
C17_SequentialReads == []ReadsInOrder /\ [][OneReadPerStep]_vars

\* a resolution for a file three directories deep returned the name of the
\* second nearest ancestor, leaving the farthest ancestor's manifest unread
C17_Witness ==
    /\ rpc = "done"
    /\ Len(pathParts) = 4
    /\ Len(reads) = 3
    /\ packageName # <<>>
    /\ ~YieldsName(reads[2])
    /\ YieldsName(AncestorDir(1))

(***************************************************************************)
(* Properties of runPreview                                                *)
(***************************************************************************)
\* the texts activation a has sent, as <<terminal, position>> pairs
SentBy(a) ==
    {tp \in (DOMAIN terminals) \X (1..(2 * MaxActivations)) :
        /\ tp[2] \in DOMAIN terminals[tp[1]].sent
        /\ terminals[tp[1]].sent[tp[2]].by = a}

\* C --preview=F
PositionalFlag(c, f) == c \o <<" ","-","-","p","r","e","v","i","e","w","=">> \o f

\* SNOWSCAPE_PREVIEW="F" C
EnvironmentPrefix(c, f) ==
    <<"S","N","O","W","S","C","A","P","E","_","P","R","E","V","I","E","W","=","\"">>
       \o f \o <<"\""," ">> \o c

\* the invocation string for resolved command c and function name f under
\* the configured convention
Invocation(c, f) ==
    IF settings.previewSelectionMethod = Setting("argument")
    THEN PositionalFlag(c, f)
    ELSE EnvironmentPrefix(c, f)

\* activation a has sent exactly one text, the invocation string of its
\* resolved command and function name
SentItsInvocation(a) ==
    /\ Cardinality(SentBy(a)) = 1
    /\ \A tp \in SentBy(a) :
          terminals[tp[1]].sent[tp[2]].text =
             Invocation(activations[a].command, activations[a].functionName)

\* C14 as stated: every activation that has returned has sent exactly one
\* invocation string: `C --preview=F` under the argument convention,
\* `SNOWSCAPE_PREVIEW="F" C` under every other setting.
C14_OneInvocationPerActivation ==
    \A a \in Activations : activations[a].apc = "done" => SentItsInvocation(a)

\* C14 as amended: an activation that has returned has sent exactly one
\* invocation string, as above, when its file lies in a workspace folder, and
\* nothing when it does not; an activation that has not returned has sent
\* nothing.
C14_OneInvocationPerResolvedActivation ==
    \A a \in Activations :
       IF activations[a].apc = "done" /\ activations[a].folder
       THEN SentItsInvocation(a)
       ELSE SentBy(a) = {}

\* an activation returned under a selection method no branch names, for a
\* command scoped to a package, and sent the environment form
C14_Witness ==
    /\ settings.previewSelectionMethod = Setting("Argument")
    /\ \E a \in Activations :
          /\ activations[a].apc = "done"
          /\ activations[a].folder
          /\ includes(activations[a].command, <<" ","-","p"," ">>)
          /\ \E tp \in SentBy(a) :
                terminals[tp[1]].sent[tp[2]].text =
                   EnvironmentPrefix(activations[a].command, activations[a].functionName)

\* the terminals named after function f
TerminalsOf(f) == {k \in DOMAIN terminals : terminals[k].name = terminalName(f)}

\* C19: whatever the number of activations for one function name and the
\* interleaving of their manifest reads, there is never more than one
\* terminal named `Snowscape: <functionName>`, and every text an activation
\* sends goes to the terminal of its function name.
C19_OneTerminalPerName ==
    /\ \A f \in FunctionNames : Cardinality(TerminalsOf(f)) <= 1
    /\ \A a \in Activations : \A tp \in SentBy(a) :
          tp[1] \in TerminalsOf(activations[a].functionName)

\* two activations for one function name, both walking the ancestors'
\* manifests, returned after sending to the one terminal runPreview created
C19_Witness ==
    \E f \in FunctionNames :
       /\ \A a \in Activations :
             /\ activations[a].apc = "done"
             /\ activations[a].folder
             /\ activations[a].functionName = f
             /\ includes(activations[a].command, <<" ","-","p"," ">>)
       /\ \E k \in TerminalsOf(f) :
             /\ terminals[k].created
             /\ Len(terminals[k].sent) = MaxActivations

(***************************************************************************)
(* Properties of the package-name pattern                                  *)
(***************************************************************************)
ManifestIndexes == 1..Len(manifestLines)

IsSectionHeader(l) == l \in {MLinePackage, MLineDependencies}

\* the value a name assignment line assigns, <<>> for any other line
AssignedName(l) ==
    CASE l = MLineNameDemo -> <<"d","e","m","o">>
      [] l = MLineNameDep -> <<"d","e","p">>
      [] OTHER -> <<>>

\* line n lies in the [package] section: after its header, before the next header
InPackageSection(n) ==
    \E h \in ManifestIndexes :
       /\ h < n
       /\ manifestLines[h] = MLinePackage
       /\ \A j \in (h + 1)..n : ~IsSectionHeader(manifestLines[j])

NamesInPackageSection ==
    {n \in ManifestIndexes : AssignedName(manifestLines[n]) # <<>> /\ InPackageSection(n)}

\* C10: for a manifest with one [package] header and one name assignment in
\* that section, the name extracted is the assigned value, whatever other
\* key/value lines (array-valued ones included) precede it in the section;
\* a name assigned only in another section is never returned.
C10_NameOfPackageSection ==
    epc = "done" =>
       /\ (/\ Cardinality({h \in ManifestIndexes : manifestLines[h] = MLinePackage}) = 1
           /\ Cardinality(NamesInPackageSection) = 1)
             => \A n \in NamesInPackageSection :
                   packageMatch = [matched |-> TRUE, name |-> AssignedName(manifestLines[n])]
       /\ NamesInPackageSection = {} => ~packageMatch.matched

====
